---- MODULE Spec2Model ----
(***************************************************************************)
(* Model of the serverless handlers of elysium-ai-endpoint: the analyze    *)
(* handler variants (api/analyze.ts and its sibling revisions), the        *)
(* selftest handlers and ping.  A request is received, a synchronous       *)
(* segment validates it and builds a prompt, the completion API is called  *)
(* (a suspension point), the reply body is read (a second suspension       *)
(* point) and a response is sent.                                          *)
(*                                                                         *)
(* JavaScript values are tagged records: the field t holds the type, and   *)
(* a property that is missing from an object is missing from the record.   *)
(***************************************************************************)
EXTENDS Integers, Sequences, FiniteSets, TLC

VARIABLES variant, env, module, reqs, bp

vars == <<variant, env, module, reqs, bp>>

-----------------------------------------------------------------------------
(* Bounds of the model *)

MaxScores == 2
NumReqs == 2
TickMs == 4000
MaxBuildCalls == 2

-----------------------------------------------------------------------------
(* JavaScript values *)

JsUndefined == [t |-> "undefined"]
JsNull == [t |-> "null"]
JsString(s) == [t |-> "string", s |-> s]
JsNumber(n) == [t |-> "number", n |-> n]
\* JSON.parse("1e999"): a number that is not finite
JsInfinity == [t |-> "number", inf |-> TRUE]
JsArray(a) == [t |-> "array", a |-> a]
JsPlainObject == [t |-> "object"]

IsNullish(v) == v.t \in {"undefined", "null"}
IsArray(v) == v.t = "array"
IsString(v) == v.t = "string"
IsNumber(v) == v.t = "number"
IsFiniteNumber(v) == v.t = "number" /\ "n" \in DOMAIN v

\* ToBoolean
Truthy(v) ==
  CASE v.t = "undefined" -> FALSE
    [] v.t = "null" -> FALSE
    [] v.t = "string" -> v.s # ""
    [] v.t = "number" -> IF "n" \in DOMAIN v THEN v.n # 0 ELSE TRUE
    [] OTHER -> TRUE

\* v.f and v?.f for a v that is not nullish: a missing property, or any
\* property of a primitive that is not one of its methods, is undefined
Get(v, f) == IF v.t = "object" /\ f \in DOMAIN v THEN v[f] ELSE JsUndefined

\* v?.f
OptGet(v, f) == IF IsNullish(v) THEN JsUndefined ELSE Get(v, f)

\* a || b
OrElse(a, b) == IF Truthy(a) THEN a ELSE b

\* a ?? b
Coalesce(a, b) == IF IsNullish(a) THEN b ELSE a

\* String(v) of a template literal `${v}`
ToTemplate(v) ==
  CASE v.t = "string" -> v.s
    [] v.t = "undefined" -> "undefined"
    [] v.t = "null" -> "null"
    [] v.t = "number" -> IF "n" \in DOMAIN v THEN ToString(v.n) ELSE "Infinity"
    [] v.t = "array" -> "<array>"
    [] OTHER -> "[object Object]"

\* JSON.stringify: a property whose value is undefined is left out of an
\* object, an undefined array element and a number that is not finite are
\* written as null
RECURSIVE JsonStringify(_)
JsonStringify(v) ==
  CASE v.t = "array" ->
         JsArray([k \in 1..Len(v.a) |->
                    IF v.a[k].t = "undefined" THEN JsNull
                                              ELSE JsonStringify(v.a[k])])
    [] v.t = "object" ->
         [f \in {g \in DOMAIN v : g = "t" \/ v[g].t # "undefined"} |->
            IF f = "t" THEN "object" ELSE JsonStringify(v[f])]
    [] v.t = "number" -> IF "n" \in DOMAIN v THEN v ELSE JsNull
    [] OTHER -> v

\* Array.prototype.join: null and undefined elements give the empty string.
\* The joined text is kept as its parts and its separator.
JoinParts(arr) ==
  [k \in 1..Len(arr.a) |-> IF IsNullish(arr.a[k]) THEN "" ELSE ToTemplate(arr.a[k])]
JoinText(arr, sep) == [t |-> "string", parts |-> JoinParts(arr), sep |-> sep]
JoinIsEmpty(j) == Len(j.parts) = 0 \/ (Len(j.parts) = 1 /\ j.parts[1] = "")

\* Errors thrown inside a handler
JsError(name, message) == [name |-> name, message |-> message]
TypeErrorNotFunction == JsError("TypeError", "not a function")
TypeErrorReadNull == JsError("TypeError", "Cannot read properties of null")
TypeErrorDestructure == JsError("TypeError", "Cannot destructure property of undefined")
SyntaxErrorJson == JsError("SyntaxError", "Unexpected token")
FetchFailed == JsError("TypeError", "fetch failed")
AbortError == JsError("AbortError", "This operation was aborted")

-----------------------------------------------------------------------------
(* Program constants *)

\* part_002: const OPENAI_TIMEOUT_MS = 8000
OPENAI_TIMEOUT_MS == 8000

DefaultBrand == "The Elysium Group"

\* STYLE_MATRIX of the JSON variant: key -> label (the strengths and risks
\* texts are constants of the prompt and carry no behaviour)
StyleKeys ==
  <<"caring", "purpose", "learning", "enjoyment", "results", "authority", "safety", "order">>
STYLE_MATRIX ==
  [k \in {StyleKeys[n] : n \in 1..Len(StyleKeys)} |->
     CASE k = "caring" -> "Caring (Collaboration & Trust)"
       [] k = "purpose" -> "Purpose-Driven (Mission & Impact)"
       [] k = "learning" -> "Learning (Innovation & Curiosity)"
       [] k = "enjoyment" -> "Enjoyment (Energy & Momentum)"
       [] k = "results" -> "Results-Oriented (Performance & Outcomes)"
       [] k = "authority" -> "Authority (Decisiveness & Control)"
       [] k = "safety" -> "Safety (Risk Management & Reliability)"
       [] OTHER -> "Order-Oriented (Process & Consistency)"]

\* The deployed handler: each revision of api/analyze.ts is one variant
AnalyzeVariants ==
  {"analyze1", "analyze2", "analyze3", "part000", "part001a", "part001b",
   "part002", "part003"}
Variants == AnalyzeVariants \cup {"selftest1", "selftest2", "ping"}
\* the variants that call the API through the OpenAI client library
SdkVariants == {"analyze2", "part003"}

-----------------------------------------------------------------------------
(* Requests, environments and upstream replies the model draws from *)

ScoreRow(key, style, current) ==
  [t |-> "object", key |-> key, style |-> style, current |-> current]

rowCaring == ScoreRow(JsString("caring"), JsString("Caring"), JsNumber(7))
rowOrder == [t |-> "object", key |-> JsString("order"), current |-> JsNumber(3)]
rowKeyNumber == [t |-> "object", key |-> JsNumber(123), current |-> JsNumber(5)]
rowNoKey == [t |-> "object", style |-> JsString("Safety"), current |-> JsNumber(5)]
rowNoCurrent == [t |-> "object", key |-> JsString("purpose"), style |-> JsString("Purpose")]
rowInfinite == [t |-> "object", key |-> JsString("learning"), current |-> JsInfinity]
rowSafety == ScoreRow(JsString("safety"), JsString("Safety"), JsNumber(7))

ScoreEntries ==
  {rowCaring, rowOrder, rowKeyNumber, rowNoKey, rowNoCurrent, rowInfinite,
   JsNull, JsNumber(4)}

RECURSIVE SeqsUpTo(_, _)
SeqsUpTo(S, n) ==
  IF n = 0 THEN {<<>>}
  ELSE LET shorter == SeqsUpTo(S, n - 1)
       IN shorter \cup {Append(q, x) : q \in shorter, x \in S}

ScoresDomain ==
  {JsArray(q) : q \in SeqsUpTo(ScoreEntries, MaxScores)}
    \cup {JsString("7,3,5"), JsPlainObject}

goodScores == JsArray(<<rowCaring, rowOrder>>)
goodTop3 ==
  [t |-> "object", observed |-> JsArray(<<JsString("Caring"), JsString("Order")>>),
   personal |-> JsArray(<<JsString("Learning")>>)]
goodNotes == JsArray(<<JsString("executive tone"), JsString("no visible numbers")>>)

Top3Domain ==
  {goodTop3, JsNull, JsString("Caring"),
   [t |-> "object", observed |-> JsString("Caring"), personal |-> JsArray(<<>>)]}
NotesDomain == {goodNotes, JsNull, JsString("be brief"), JsArray(<<>>)}
BrandDomain == {JsString("Acme Corp"), JsString("")}

\* an object with the listed properties; an undefined value means the
\* property is missing
WithOptional(obj, f, v) ==
  IF v.t = "undefined" THEN obj
  ELSE [g \in DOMAIN obj \cup {f} |-> IF g = f THEN v ELSE obj[g]]

SnapshotOf(scores, top3) ==
  WithOptional(WithOptional([t |-> "object"], "scores", scores), "top3", top3)
BodyOf(brand, snapshot, notes) ==
  WithOptional(WithOptional(WithOptional([t |-> "object"],
    "brand", brand), "snapshot", snapshot), "referenceNotes", notes)

-----------------------------------------------------------------------------
(* Helpers of the handlers *)

\* the outcome of an expression that may throw
Returned(v) == [thrown |-> FALSE, v |-> v]
Thrown(e) == [thrown |-> TRUE, e |-> e]

\* (referenceNotes || []).join(sep): a truthy value that is no array has
\* no join method
NotesJoin(referenceNotes, sep) ==
  LET x == OrElse(referenceNotes, JsArray(<<>>))
  IN IF IsArray(x) THEN Returned(JoinText(x, sep)) ELSE Thrown(TypeErrorNotFunction)

\* part_002: r && typeof r.key === "string" && typeof r.current === "number"
isValidScoreRow(r) ==
  Truthy(r) /\ IsString(Get(r, "key")) /\ IsNumber(Get(r, "current"))

\* part_002: Array.isArray(x) && x.every(...)
isValidScores(x) ==
  IsArray(x) /\ \A k \in 1..Len(x.a) : isValidScoreRow(x.a[k])

\* part_001, second handler: snapshot.scores.filter(...).map(...)
cleanedScoreRow(r) ==
  [t |-> "object",
   key |-> Get(r, "key"),
   style |-> OrElse(Get(r, "style"), Get(r, "key")),
   current |-> IF IsNumber(Get(r, "current")) THEN Get(r, "current") ELSE JsNumber(0)]

cleanedScoresKeep(r) == Truthy(r) /\ IsString(Get(r, "key"))

cleanedScores(scores) ==
  LET kept == SelectSeq(scores.a, cleanedScoresKeep)
  IN JsArray([k \in 1..Len(kept) |-> cleanedScoreRow(kept[k])])

\* analyze.ts, JSON variant: the comparator of asPrettyScores,
\* (b.current ?? 0) - (a.current ?? 0) > 0, for rows that are not nullish;
\* a difference that is NaN orders nothing
CurrentOrZero(s) == Coalesce(Get(s, "current"), JsNumber(0))
SortsBefore(b, a) ==
  LET x == CurrentOrZero(b)
      y == CurrentOrZero(a)
  IN /\ IsNumber(x)
     /\ IsNumber(y)
     /\ IsFiniteNumber(y)
     /\ (IsFiniteNumber(x) => x.n > y.n)

\* Array.prototype.sort is stable: x goes before the first row it sorts before
RECURSIVE InsertSorted(_, _)
InsertSorted(sorted, x) ==
  IF sorted = <<>> THEN <<x>>
  ELSE IF SortsBefore(x, Head(sorted)) THEN <<x>> \o sorted
  ELSE <<Head(sorted)>> \o InsertSorted(Tail(sorted), x)

RECURSIVE StableSort(_)
StableSort(q) ==
  IF q = <<>> THEN <<>>
  ELSE InsertSorted(StableSort(SubSeq(q, 1, Len(q) - 1)), q[Len(q)])

PrettyLabel(s) ==
  LET key == Get(s, "key")
  IN IF IsString(key) /\ key.s \in DOMAIN STYLE_MATRIX
     THEN JsString(STYLE_MATRIX[key.s])
     ELSE OrElse(Get(s, "style"), key)

PrettyRow(s) ==
  [t |-> "object", key |-> Get(s, "key"), label |-> PrettyLabel(s),
   current |-> Get(s, "current")]

\* scores.sort(...) in place of [...scores].sort(...)
asPrettyScores_InPlace(scores) ==
  IF \E k \in 1..Len(scores.a) : IsNullish(scores.a[k])
  THEN [ret |-> Thrown(TypeErrorReadNull), arg |-> scores]
  ELSE LET sorted == StableSort(scores.a)
       IN [ret |-> Returned(JsArray([k \in 1..Len(sorted) |-> PrettyRow(sorted[k])])),
           arg |-> JsArray(sorted)]

\* asPrettyScores: ret is what the call returns (or throws: a null row has
\* no property to read), arg is the caller's array after the call, which
\* [...scores] leaves alone
asPrettyScores(scores) ==
  IF \E k \in 1..Len(scores.a) : IsNullish(scores.a[k])
  THEN [ret |-> Thrown(TypeErrorReadNull), arg |-> scores]
  ELSE LET sorted == StableSort(scores.a)
       IN [ret |-> Returned(JsArray([k \in 1..Len(sorted) |-> PrettyRow(sorted[k])])),
           arg |-> scores]

\* buildPrompt(brand, snapshot, orgMeta): ret is the message list (or the
\* error thrown), snapshot is the caller's snapshot after the call.  The
\* system text names The Elysium Group literally; the brand goes into the
\* user content.
buildPrompt(brand, snapshot, orgMeta) ==
  LET pretty == asPrettyScores(Get(snapshot, "scores"))
      after == [snapshot EXCEPT !.scores = pretty.arg]
      topPersonal == OrElse(OptGet(Get(snapshot, "top3"), "personal"), JsArray(<<>>))
      company == OrElse(OrElse(OptGet(orgMeta, "company"), OptGet(orgMeta, "domain")),
                        JsString(""))
      industry == OrElse(OptGet(orgMeta, "industry"), JsString(""))
  IN IF pretty.ret.thrown
     THEN [ret |-> pretty.ret, snapshot |-> after]
     ELSE [ret |-> Returned(
             [system |-> [template |-> "buildPrompt", brand |-> DefaultBrand],
              user |-> JsonStringify(
                [t |-> "object",
                 brand |-> brand,
                 org |-> [t |-> "object", company |-> company, industry |-> industry],
                 inputs |-> [t |-> "object", scores |-> pretty.ret.v,
                             topPersonal |-> topPersonal]])]),
           snapshot |-> after]

-----------------------------------------------------------------------------
(* The reference matrix of part_001's first handler *)

\* A text is kept as what split(/\r?\n/) and split(",") make of it: its
\* lines, each a sequence of cells.  json is what JSON.parse makes of it,
\* or undefined when JSON.parse throws.
JsText(lines, json) == [t |-> "string", s |-> "<text>", lines |-> lines, json |-> json]

\* String.prototype.trim on the cell strings the model uses
Trim(s) ==
  CASE s = " " -> ""
    [] s = " Caring " -> "Caring"
    [] s = " Vision" -> "Vision"
    [] OTHER -> s

\* Number(x) of a cell, then isFinite(n) ? n : 0
CellWeight(s) ==
  CASE Trim(s) = "1" -> 1
    [] Trim(s) = "2" -> 2
    [] OTHER -> 0

\* csv.split(/\r?\n/).filter(Boolean): a line is the empty string when it
\* has one cell and that cell is empty
LineIsEmpty(line) == Len(line) = 1 /\ line[1] = ""

\* csvToRows
csvToRows(csv) ==
  LET lines == SelectSeq(csv.lines, LAMBDA l : ~LineIsEmpty(l))
  IN JsArray([k \in 1..Len(lines) |->
       JsArray([c \in 1..Len(lines[k]) |-> JsString(Trim(lines[k][c]))])])

\* csv.trim() is not empty
TextTrimTruthy(csv) ==
  \E k \in 1..Len(csv.lines) :
     Len(csv.lines[k]) > 1 \/ \E c \in 1..Len(csv.lines[k]) : Trim(csv.lines[k][c]) # ""

\* a row of normalizeMatrixFromRows' body: null when the row is skipped
RowLabel(r) == Trim(ToTemplate(OrElse(r.a[1], JsString(""))))
RowWeights(r, width) ==
  LET given == [c \in 1..(Len(r.a) - 1) |-> CellWeight(ToTemplate(r.a[c + 1]))]
  IN given \o [c \in 1..(IF width > Len(given) THEN width - Len(given) ELSE 0) |-> 0]
RowSkipped(r) == Len(r.a) = 0 \/ RowLabel(r) = ""

\* normalizeMatrixFromRows(rows): rows is an array; a row that is no array
\* of strings has no map, length or trim to call
normalizeMatrixFromRows(rows) ==
  IF Len(rows.a) = 0 THEN Returned(JsNull)
  ELSE IF \E k \in 1..Len(rows.a) :
            \/ ~IsArray(rows.a[k])
            \/ \E c \in 1..Len(rows.a[k].a) : ~IsString(rows.a[k].a[c])
  THEN Thrown(TypeErrorNotFunction)
  ELSE LET header == [c \in 1..Len(rows.a[1].a) |-> Trim(rows.a[1].a[c].s)]
           cultures == SelectSeq(SubSeq(header, 2, Len(header)), LAMBDA h : h # "")
           body == SelectSeq(SubSeq(rows.a, 2, Len(rows.a)), LAMBDA r : ~RowSkipped(r))
           chosen == [k \in 1..Len(body) |-> RowLabel(body[k])]
           weights == [k \in 1..Len(body) |-> RowWeights(body[k], Len(cultures))]
       IN IF Len(cultures) = 0 \/ Len(chosen) = 0 THEN Returned(JsNull)
          ELSE Returned([t |-> "object",
                         cultures |-> JsArray([k \in 1..Len(cultures) |-> JsString(cultures[k])]),
                         chosen |-> JsArray([k \in 1..Len(chosen) |-> JsString(chosen[k])]),
                         weights |-> weights])

\* { cultures, chosen, weights } all arrays: the object is used as it is
IsMatrixShaped(j) ==
  /\ IsArray(OptGet(j, "cultures"))
  /\ IsArray(OptGet(j, "chosen"))
  /\ IsArray(OptGet(j, "weights"))

\* xlsxBase64ToRows: the XLSX library is outside the repository; a base64
\* text carries the rows of its first sheet, or is unreadable and throws
xlsxBase64ToRows(b64) ==
  IF "sheet" \in DOMAIN b64 THEN Returned(b64.sheet)
  ELSE Thrown(JsError("Error", "Unsupported file"))

\* /^https?:\/\//.test(url) and the extension tests on the urls of the model
UrlIsHttp(u) == u \in {"https://cdn.test/matrix.csv", "https://cdn.test/matrix.json",
                       "https://cdn.test/matrix.xlsx", "http://cdn.test/matrix"}
UrlEndsWith(u, ext) ==
  \/ ext = ".csv" /\ u = "https://cdn.test/matrix.csv"
  \/ ext = ".json" /\ u = "https://cdn.test/matrix.json"

\* steps 1 to 3 of getNormalizedMatrix, up to the await of fetchText:
\* kind "return" with the matrix or null, "throw", or "fetch" when step 4
\* fetches matrixUrl
MatrixFromJson(body) ==
  LET j == OptGet(body, "matrixJson")
  IN IF ~(Truthy(j) /\ j.t \in {"object", "array"}) THEN Returned(JsNull)
     ELSE IF IsMatrixShaped(j) THEN Returned(j)
     ELSE IF IsArray(OptGet(j, "rows")) THEN normalizeMatrixFromRows(Get(j, "rows"))
     ELSE Returned(JsNull)

MatrixFromCsv(body) ==
  LET c == OptGet(body, "matrixCsv")
  IN IF IsString(c) /\ "lines" \in DOMAIN c /\ TextTrimTruthy(c)
     THEN normalizeMatrixFromRows(csvToRows(c))
     ELSE Returned(JsNull)

\* try { ... } catch { } swallows what the parse and the normalisation throw
MatrixFromXlsx(body) ==
  LET x == OptGet(body, "matrixXlsxBase64")
  IN IF IsString(x) /\ Truthy(x)
     THEN LET rows == xlsxBase64ToRows(x)
              nm == IF rows.thrown THEN rows ELSE normalizeMatrixFromRows(rows.v)
          IN IF nm.thrown THEN Returned(JsNull) ELSE nm
     ELSE Returned(JsNull)

getNormalizedMatrix(body) ==
  LET fromJson == MatrixFromJson(body)
      fromCsv == MatrixFromCsv(body)
      fromXlsx == MatrixFromXlsx(body)
      url == OptGet(body, "matrixUrl")
  IN IF fromJson.thrown THEN [kind |-> "throw", e |-> fromJson.e]
     ELSE IF Truthy(fromJson.v) THEN [kind |-> "return", v |-> fromJson.v]
     ELSE IF fromCsv.thrown THEN [kind |-> "throw", e |-> fromCsv.e]
     ELSE IF Truthy(fromCsv.v) THEN [kind |-> "return", v |-> fromCsv.v]
     ELSE IF Truthy(fromXlsx.v) THEN [kind |-> "return", v |-> fromXlsx.v]
     ELSE IF IsString(url) /\ UrlIsHttp(url.s) THEN [kind |-> "fetch", url |-> url.s]
     ELSE [kind |-> "return", v |-> JsNull]

\* fetchText and step 4 of getNormalizedMatrix once the url has answered:
\* reply is [ok, status, text]
MatrixFromUrl(url, reply) ==
  IF ~reply.ok THEN Thrown(JsError("Error", "Fetch failed"))
  ELSE LET fromCsv == IF UrlEndsWith(url, ".csv")
                      THEN normalizeMatrixFromRows(csvToRows(reply.text))
                      ELSE Returned(JsNull)
           j == reply.text.json
           fromJson == IF ~UrlEndsWith(url, ".json") THEN Returned(JsNull)
                       ELSE IF j.t = "undefined" THEN Thrown(SyntaxErrorJson)
                       ELSE IF IsMatrixShaped(j) THEN Returned(j)
                       ELSE IF IsArray(OptGet(j, "rows"))
                            THEN normalizeMatrixFromRows(Get(j, "rows"))
                       ELSE Returned(JsNull)
       IN IF fromCsv.thrown \/ Truthy(fromCsv.v) THEN fromCsv ELSE fromJson

-----------------------------------------------------------------------------
(* A request in flight *)

NoPayload == [none |-> TRUE]
NoReply == [none |-> TRUE]
NoResponse == [status |-> 0]

\* pc: "new" (received, handler not yet run), "awaitMatrix" (fetchText of
\* matrixUrl pending), "awaitFetch" (completion call pending), "awaitBody"
\* (reply headers received, body being read), "done" (response sent).
\* calls counts the completion calls started for the request, sent is the
\* payload of the last one, timer is the abort timer of part_002.
\* given is the body as the caller sent it, failure the error that rejected
\* the completion call, matrixReply the answer of matrixUrl.
NoError == JsError("", "")
NewRequest(method, body) ==
  [method |-> method, body |-> body, given |-> body, pc |-> "new", calls |-> 0,
   sent |-> NoPayload, reply |-> NoReply, failure |-> NoError, resp |-> NoResponse,
   timer |-> "none", elapsed |-> 0, matrix |-> JsUndefined,
   matrixUrl |-> "", matrixFetches |-> 0, matrixReply |-> NoReply]

\* res.status(status).json(body) / .end()
Respond(r, status, body) ==
  [r EXCEPT !.pc = "done", !.resp = [status |-> status, body |-> body]]

\* fetch(".../chat/completions", ...) or client.chat.completions.create(...):
\* one call by the handler; what the client library does inside create is
\* not code of the handlers
CallCompletion(r, payload) ==
  [r EXCEPT !.pc = "awaitFetch", !.calls = @ + 1, !.sent = payload]

\* auth is the key of the Authorization header (or of the client)
Payload(url, auth, model, system, user) ==
  [url |-> url, auth |-> auth, model |-> model, system |-> system, user |-> user]

OpenAiUrl == "https://api.openai.com/v1/chat/completions"

\* process.env.OPENAI_MODEL || fallback
EnvModel(e, fallback) == OrElse(e.OPENAI_MODEL, JsString(fallback)).s

\* the module-level bindings, evaluated when the module is loaded:
\* MODEL and OPENAI_API_KEY of the JSON variant, the client of analyze2
ModuleLoad(e) ==
  [MODEL |-> EnvModel(e, "gpt-5"),
   OPENAI_API_KEY |-> e.OPENAI_API_KEY,
   openai |-> [apiKey |-> e.OPENAI_API_KEY]]

\* what a handler run leaves in the module-level bindings: they are const
\* and no handler assigns to them
ModuleAfterRequest_Leak(m, r) ==
  [m EXCEPT !.MODEL = ToTemplate(OptGet(r.body, "brand")),
            !.openai.apiKey = JsString(ToTemplate(OptGet(r.body, "brand")))]

ModuleAfterRequest(m, r) == m

\* the reply of the completion API: data?.choices?.[0]?.message?.content
ReplyContent(reply) ==
  IF reply.body.kind = "completion" THEN reply.body.content ELSE JsUndefined
\* await r.json() throws on a body that is no JSON
ReplyJsonThrows(reply) == reply.body.kind = "garbage"
\* await r.text()
ReplyText(reply) == JsString(reply.body.raw)

\* JSON.parse on the message contents of the model: the parsed value, or
\* undefined when it throws
IsJsonText(text) == text \in {"{\"executiveSummary\":[]}", "{}"}
JsonParse(text) ==
  IF IsJsonText(text) THEN [t |-> "object", parsedFrom |-> text] ELSE JsUndefined

\* String.prototype.trim on the message contents of the model
TrimContent(text) == IF text = " OK " THEN "OK" ELSE text

\* the catch block of each handler
Catch(v, r, err) ==
  CASE v = "analyze1" -> Respond(r, 500, [error |-> "server", detail |-> err.message])
    [] v = "analyze2" -> Respond(r, 500, [error |-> "Failed to generate analysis"])
    [] v = "analyze3" ->
         Respond(r, 500, [error |-> "Unexpected server error", detail |-> err.message])
    [] v = "part000" -> Respond(r, 500, [error |-> err.message])
    [] v = "part001a" -> Respond(r, 500, [error |-> "server", detail |-> err.message])
    [] v = "part001b" -> Respond(r, 500, [error |-> "server", detail |-> err.message])
    [] v = "part002" ->
         IF err.name = "AbortError"
         THEN Respond(r, 504, [error |-> "Upstream timeout"])
         ELSE Respond(r, 500, [error |-> "server", detail |-> err.message])
    [] v = "part003" -> Respond(r, 500, [error |-> err.message])
    [] v = "selftest1" -> Respond(r, 500, [ok |-> FALSE, error |-> err.message])
    [] OTHER -> Respond(r, 500, [error |-> "server", detail |-> err.message])

-----------------------------------------------------------------------------
(* api/analyze.ts, first handler *)

handler_analyze1(r, e, m) ==
  LET b == OrElse(r.body, JsPlainObject)
      snapshot == Get(b, "snapshot")
      brand == Get(b, "brand")
      scores == OptGet(snapshot, "scores")
      notes == NotesJoin(Get(b, "referenceNotes"), "\n")
  IN IF r.method = "OPTIONS" THEN Respond(r, 200, [end |-> TRUE])
     ELSE IF r.method = "GET" THEN Respond(r, 200, [ok |-> TRUE, endpoint |-> "analyze"])
     ELSE IF r.method # "POST" THEN Respond(r, 405, [error |-> "Method not allowed"])
     ELSE IF ~Truthy(e.OPENAI_API_KEY)
          THEN Respond(r, 500, [error |-> "Missing OPENAI_API_KEY"])
     ELSE IF ~Truthy(snapshot) \/ ~IsArray(scores) \/ Len(scores.a) = 0
          THEN Respond(r, 400, [error |-> "Missing snapshot.scores (array required)"])
     ELSE IF notes.thrown THEN Catch("analyze1", r, notes.e)
     ELSE CallCompletion(r, Payload(OpenAiUrl, e.OPENAI_API_KEY, EnvModel(e, "gpt-4o-mini"),
            [template |-> "analyze1", brand |-> ToTemplate(OrElse(brand, JsString(DefaultBrand)))],
            [template |-> "analyze1", snapshot |-> JsonStringify(snapshot),
             notes |-> notes.v]))

resume_analyze1(r, e, m) ==
  IF ~r.reply.ok
  THEN Respond(r, 502, [error |-> "OpenAI error", detail |-> ReplyText(r.reply)])
  ELSE IF ReplyJsonThrows(r.reply) THEN Catch("analyze1", r, SyntaxErrorJson)
  ELSE Respond(r, 200, [text |-> OrElse(ReplyContent(r.reply), JsString(""))])

-----------------------------------------------------------------------------
(* api/analyze.ts, second handler: the report through the client library *)

handler_analyze2(r, e, m) ==
  IF r.method # "POST" THEN Respond(r, 405, [error |-> "Method not allowed"])
  ELSE IF IsNullish(r.body) THEN Catch("analyze2", r, TypeErrorDestructure)
  ELSE CallCompletion(r, Payload(OpenAiUrl, m.openai.apiKey, EnvModel(e, "gpt-5"),
         [template |-> "analyze2", brand |-> ""],
         [template |-> "analyze2",
          scores |-> JsonStringify(Get(r.body, "scores")),
          top3 |-> JsonStringify(Get(r.body, "top3")),
          followups |-> JsonStringify(Get(r.body, "followups")),
          raw_answers |-> JsonStringify(Get(r.body, "raw_answers"))]))

\* the client library resolves with the parsed completion, and throws when
\* the API answers with an error status or with a body that is no JSON
resume_analyze2(r, e, m) ==
  IF ~r.reply.ok \/ ReplyJsonThrows(r.reply)
  THEN Catch("analyze2", r, JsError("APIError", "request failed"))
  ELSE Respond(r, 200, [report |-> OrElse(ReplyContent(r.reply), JsString(""))])

-----------------------------------------------------------------------------
(* api/analyze.ts, third handler: the JSON report *)

\* bad(res, status, msg, detail)
bad(r, status, msg, detail) == Respond(r, status, [error |-> msg, detail |-> detail])

handler_analyze3(r, e, m) ==
  LET b == OrElse(r.body, JsPlainObject)
      \* { brand = 'The Elysium Group' }: the default replaces undefined only
      brand == IF Get(b, "brand").t = "undefined" THEN JsString(DefaultBrand)
                                                  ELSE Get(b, "brand")
      snapshot == Get(b, "snapshot")
      scores == OptGet(snapshot, "scores")
      built == buildPrompt(brand, snapshot, Get(b, "orgMeta"))
  IN IF r.method = "OPTIONS" THEN Respond(r, 204, [end |-> TRUE])
     ELSE IF ~Truthy(snapshot) \/ ~IsArray(scores) \/ Len(scores.a) = 0
          THEN bad(r, 400, "Missing snapshot.scores (array required)", "")
     ELSE IF ~Truthy(m.OPENAI_API_KEY)
          THEN bad(r, 500, "Server not configured (missing OPENAI_API_KEY)", "")
     ELSE IF built.ret.thrown
          THEN Catch("analyze3", [r EXCEPT !.body.snapshot = built.snapshot], built.ret.e)
     ELSE CallCompletion([r EXCEPT !.body.snapshot = built.snapshot],
            Payload(OpenAiUrl, m.OPENAI_API_KEY, m.MODEL,
                    built.ret.v.system, built.ret.v.user))

resume_analyze3(r, e, m) ==
  LET content == OrElse(ReplyContent(r.reply), JsString("{}"))
  IN IF ~r.reply.ok THEN bad(r, r.reply.status, "OpenAI error", ReplyText(r.reply).s)
     ELSE IF ReplyJsonThrows(r.reply) THEN Catch("analyze3", r, SyntaxErrorJson)
     ELSE IF ~IsJsonText(content.s) THEN Catch("analyze3", r, SyntaxErrorJson)
     ELSE Respond(r, 200, JsonParse(content.s))

-----------------------------------------------------------------------------
(* part_000 *)

handler_part000(r, e, m) ==
  LET b == OrElse(r.body, JsPlainObject)
      brand == Get(b, "brand")
      snapshot == Get(b, "snapshot")
      referenceNotes == Get(b, "referenceNotes")
  IN IF r.method = "OPTIONS" THEN Respond(r, 200, [end |-> TRUE])
     ELSE IF r.method # "POST" THEN Respond(r, 405, [error |-> "Method not allowed"])
     ELSE IF ~Truthy(e.OPENAI_API_KEY)
          THEN Respond(r, 500, [error |-> "Missing OPENAI_API_KEY"])
     ELSE IF ~Truthy(brand) \/ ~Truthy(snapshot)
          THEN Respond(r, 400, [error |-> "Missing brand or snapshot in request body"])
     ELSE CallCompletion(r, Payload(OpenAiUrl, e.OPENAI_API_KEY, EnvModel(e, "gpt-4o-mini"),
            [template |-> "part000", brand |-> ""],
            [template |-> "part000", brand |-> ToTemplate(brand),
             snapshot |-> JsonStringify(snapshot),
             notes |-> IF IsArray(referenceNotes) THEN JoinText(referenceNotes, " | ")
                       ELSE JoinText(JsArray(<<>>), " | ")]))

resume_part000(r, e, m) ==
  LET content == ReplyContent(r.reply)
  IN IF ~r.reply.ok
     THEN Respond(r, r.reply.status,
                  [error |-> "OpenAI API error", details |-> ReplyText(r.reply)])
     ELSE IF ReplyJsonThrows(r.reply) THEN Catch("part000", r, SyntaxErrorJson)
     ELSE Respond(r, 200,
            [text |-> IF IsString(content) /\ TrimContent(content.s) # ""
                      THEN JsString(TrimContent(content.s)) ELSE JsString("")])

-----------------------------------------------------------------------------
(* part_001, first handler: the structured report with the reference matrix *)

\* err(res, error, detail, status)
err(r, error, detail, status) == Respond(r, status, [error |-> error, detail |-> detail])

\* the handler from the matrix on: the prompts and the completion call
prompt_part001a(r, e, normalizedMatrix) ==
  LET b == OrElse(r.body, JsPlainObject)
      notes == NotesJoin(Get(b, "referenceNotes"), "\n")
      base == OrElse(e.OPENAI_API_BASE, JsString("https://api.openai.com/v1")).s
                \o "/chat/completions"
      withMatrix == [r EXCEPT !.matrix = normalizedMatrix]
  IN IF notes.thrown THEN Catch("part001a", withMatrix, notes.e)
     ELSE CallCompletion(withMatrix,
            Payload(base, e.OPENAI_API_KEY, EnvModel(e, "gpt-5"),
              [template |-> "part001a",
               brand |-> ToTemplate(OrElse(Get(b, "brand"), JsString(DefaultBrand)))],
              [template |-> "part001a", snapshot |-> JsonStringify(Get(b, "snapshot")),
               notes |-> notes.v,
               matrixNote |-> IF Truthy(normalizedMatrix)
                              THEN [cultures |-> OptGet(normalizedMatrix, "cultures"),
                                    chosen |-> OptGet(normalizedMatrix, "chosen")]
                              ELSE [none |-> TRUE]]))

handler_part001a(r, e, m) ==
  LET b == OrElse(r.body, JsPlainObject)
      snapshot == Get(b, "snapshot")
      nm == getNormalizedMatrix(r.body)
  IN IF r.method = "OPTIONS" THEN Respond(r, 200, [end |-> TRUE])
     ELSE IF r.method # "POST" THEN err(r, "Method not allowed", "", 405)
     ELSE IF ~Truthy(e.OPENAI_API_KEY) THEN err(r, "Missing OPENAI_API_KEY", "", 500)
     ELSE IF ~Truthy(OptGet(snapshot, "scores")) THEN err(r, "Missing snapshot.scores", "", 400)
     ELSE IF nm.kind = "throw" THEN Catch("part001a", r, nm.e)
     ELSE IF nm.kind = "fetch"
          THEN [r EXCEPT !.pc = "awaitMatrix", !.matrixUrl = nm.url, !.matrixFetches = @ + 1]
     ELSE prompt_part001a(r, e, nm.v)

\* fetchText(matrixUrl) has answered (or failed: reply.failed)
matrix_part001a(r, e, reply) ==
  LET nm == MatrixFromUrl(r.matrixUrl, reply)
  IN IF reply.failed THEN Catch("part001a", r, FetchFailed)
     ELSE IF nm.thrown THEN Catch("part001a", r, nm.e)
     ELSE prompt_part001a(r, e, nm.v)

resume_part001a(r, e, m) ==
  LET text == Coalesce(ReplyContent(r.reply), JsString(""))
      structured == IF IsJsonText(text.s) THEN JsonParse(text.s)
                    ELSE [t |-> "object", raw |-> text]
  IN IF ~r.reply.ok THEN err(r, "OpenAI error", ReplyText(r.reply).s, 500)
     ELSE IF ReplyJsonThrows(r.reply) THEN Catch("part001a", r, SyntaxErrorJson)
     ELSE Respond(r, 200, [model |-> EnvModel(e, "gpt-5"),
                           usedMatrix |-> Truthy(r.matrix),
                           result |-> structured])

-----------------------------------------------------------------------------
(* part_001, second handler: the sanitising variant *)

handler_part001b(r, e, m) ==
  LET b == Coalesce(r.body, JsPlainObject)
      snapshot == Get(b, "snapshot")
      scores == OptGet(snapshot, "scores")
      joined == NotesJoin(Get(b, "referenceNotes"), "\n")
  IN IF r.method = "OPTIONS" THEN Respond(r, 200, [end |-> TRUE])
     ELSE IF r.method # "POST" THEN Respond(r, 405, [error |-> "Method not allowed"])
     ELSE IF ~Truthy(e.OPENAI_API_KEY)
          THEN Respond(r, 500, [error |-> "Missing OPENAI_API_KEY"])
     ELSE IF ~Truthy(snapshot) \/ ~IsArray(scores)
          THEN Respond(r, 400, [error |-> "Missing snapshot.scores (array required)"])
     ELSE IF joined.thrown THEN Catch("part001b", r, joined.e)
     ELSE CallCompletion(r, Payload(OpenAiUrl, e.OPENAI_API_KEY, EnvModel(e, "gpt-4o-mini"),
            [template |-> "part001b",
             brand |-> ToTemplate(OrElse(Get(b, "brand"), JsString(DefaultBrand)))],
            [template |-> "part001b",
             snapshot |-> JsonStringify(
               [t |-> "object", scores |-> cleanedScores(scores),
                top3 |-> OrElse(Get(snapshot, "top3"), JsPlainObject)]),
             notes |-> IF JoinIsEmpty(joined.v)
                       THEN JoinText(JsArray(<<JsString("(none)")>>), "\n")
                       ELSE joined.v]))

resume_part001b(r, e, m) ==
  LET content == ReplyContent(r.reply)
  IN IF ~r.reply.ok
     THEN Respond(r, 502, [error |-> "OpenAI error", detail |-> ReplyText(r.reply)])
     ELSE IF ReplyJsonThrows(r.reply) THEN Catch("part001b", r, SyntaxErrorJson)
     ELSE Respond(r, 200,
            [text |-> IF IsString(content) /\ TrimContent(content.s) # ""
                      THEN JsString(TrimContent(content.s))
                      ELSE JsString("No analysis was generated."),
             model |-> EnvModel(e, "gpt-4o-mini")])

-----------------------------------------------------------------------------
(* part_002: the variant with the abort timer *)

\* .catch((e) => { throw new Error(`Upstream fetch failed: ...`) }): the
\* error that reaches the handler's catch block is a new Error
WrapFetchError(cause) == JsError("Error", "Upstream fetch failed: " \o cause.message)

handler_part002(r, e, m) ==
  LET b == OrElse(r.body, JsPlainObject)
      snapshot == Get(b, "snapshot")
      notes == NotesJoin(Get(b, "referenceNotes"), "\n")
  IN IF r.method = "OPTIONS" THEN Respond(r, 200, [end |-> TRUE])
     ELSE IF r.method # "POST" THEN Respond(r, 405, [error |-> "Method not allowed"])
     ELSE IF ~Truthy(e.OPENAI_API_KEY)
          THEN Respond(r, 500, [error |-> "Missing OPENAI_API_KEY"])
     ELSE IF ~Truthy(snapshot) \/ ~isValidScores(Get(snapshot, "scores"))
          THEN Respond(r, 400, [error |-> "Missing snapshot.scores (array required)"])
     ELSE IF notes.thrown THEN Catch("part002", r, notes.e)
     ELSE [CallCompletion(r, Payload(OpenAiUrl, e.OPENAI_API_KEY, EnvModel(e, "gpt-5"),
             [template |-> "part002",
              brand |-> ToTemplate(OrElse(Get(b, "brand"), JsString(DefaultBrand)))],
             [template |-> "part002", snapshot |-> JsonStringify(snapshot),
              notes |-> notes.v]))
           EXCEPT !.timer = "armed"]

resume_part002(r, e, m) ==
  IF ~r.reply.ok
  THEN Respond(r, 502, [error |-> "OpenAI error", detail |-> ReplyText(r.reply)])
  ELSE IF ReplyJsonThrows(r.reply) THEN Catch("part002", r, SyntaxErrorJson)
  ELSE Respond(r, 200, [text |-> OrElse(ReplyContent(r.reply), JsString(""))])

-----------------------------------------------------------------------------
(* part_003: the variant through the client library *)

\* x?.join(sep) inside the template: undefined when x is nullish, a
\* TypeError when x is no array
OptJoin(x, sep) ==
  IF IsNullish(x) THEN Returned(JsUndefined)
  ELSE IF IsArray(x) THEN Returned(JoinText(x, sep))
  ELSE Thrown(TypeErrorNotFunction)

\* snapshot.scores?.map((s) => `${s.style}: ${s.current}`).join("\n")
ScoreLines(scores) ==
  IF IsNullish(scores) THEN Returned(JsUndefined)
  ELSE IF ~IsArray(scores) THEN Thrown(TypeErrorNotFunction)
  ELSE IF \E k \in 1..Len(scores.a) : IsNullish(scores.a[k]) THEN Thrown(TypeErrorReadNull)
  ELSE Returned(JsArray([k \in 1..Len(scores.a) |->
         [t |-> "line", style |-> ToTemplate(Get(scores.a[k], "style")),
          current |-> ToTemplate(Get(scores.a[k], "current"))]]))

handler_part003(r, e, m) ==
  LET b == OrElse(r.body, JsPlainObject)
      brand == Get(b, "brand")
      snapshot == Get(b, "snapshot")
      top3 == Get(snapshot, "top3")
      observed == OptJoin(OptGet(top3, "observed"), ", ")
      personal == OptJoin(OptGet(top3, "personal"), ", ")
      lines == ScoreLines(Get(snapshot, "scores"))
      notes == OptJoin(Get(b, "referenceNotes"), "\n")
  IN IF r.method # "POST" THEN Respond(r, 405, [error |-> "Method not allowed"])
     ELSE IF ~Truthy(e.OPENAI_API_KEY)
          THEN Respond(r, 500, [error |-> "Missing OPENAI_API_KEY"])
     ELSE IF ~Truthy(brand) \/ ~Truthy(snapshot)
          THEN Respond(r, 400, [error |-> "Missing brand or snapshot data"])
     ELSE IF observed.thrown THEN Catch("part003", r, observed.e)
     ELSE IF personal.thrown THEN Catch("part003", r, personal.e)
     ELSE IF lines.thrown THEN Catch("part003", r, lines.e)
     ELSE IF notes.thrown THEN Catch("part003", r, notes.e)
     ELSE CallCompletion(r, Payload(OpenAiUrl, e.OPENAI_API_KEY, "gpt-4o-mini",
            [template |-> "part003", brand |-> ""],
            [template |-> "part003", brand |-> ToTemplate(brand),
             observed |-> observed.v, personal |-> personal.v, scores |-> lines.v,
             notes |-> IF notes.v.t = "undefined" \/ JoinIsEmpty(notes.v)
                       THEN JoinText(JsArray(<<JsString("None")>>), "\n")
                       ELSE notes.v]))

\* completion.choices[0].message?.content: choices[0] is read without ?.
resume_part003(r, e, m) ==
  IF ~r.reply.ok \/ ReplyJsonThrows(r.reply)
  THEN Catch("part003", r, JsError("APIError", "request failed"))
  ELSE IF r.reply.body.kind = "emptyChoices" THEN Catch("part003", r, TypeErrorReadNull)
  ELSE Respond(r, 200, [text |-> OrElse(ReplyContent(r.reply), JsString(""))])

-----------------------------------------------------------------------------
(* api/selftest.ts (two handlers) and api/ping.ts *)

SelftestPayload(e, model, system, user) ==
  Payload(OpenAiUrl, e.OPENAI_API_KEY, model,
          [template |-> system, brand |-> ""], [template |-> user])

handler_selftest1(r, e, m) ==
  IF r.method = "OPTIONS" THEN Respond(r, 200, [end |-> TRUE])
  ELSE IF ~Truthy(e.OPENAI_API_KEY)
       THEN Respond(r, 401, [ok |-> FALSE, error |-> "Missing OPENAI_API_KEY"])
  ELSE CallCompletion(r, SelftestPayload(e, EnvModel(e, "gpt-4o-mini"),
         "You are a terse assistant.", "Reply with 'OK'."))

\* r.json().catch(() => ({})): r.ok is never read
resume_selftest1(r, e, m) ==
  Respond(r, 200, [ok |-> TRUE, model |-> EnvModel(e, "gpt-4o-mini"),
                   reply |-> OrElse(ReplyContent(r.reply), JsString(""))])

handler_selftest2(r, e, m) ==
  IF r.method = "OPTIONS" THEN Respond(r, 200, [end |-> TRUE])
  ELSE IF r.method # "GET" THEN Respond(r, 405, [error |-> "Method not allowed"])
  ELSE IF ~Truthy(e.OPENAI_API_KEY)
       THEN Respond(r, 500, [error |-> "Missing OPENAI_API_KEY"])
  ELSE CallCompletion(r, SelftestPayload(e, EnvModel(e, "gpt-5"),
         "Reply with OK.", "Health check"))

resume_selftest2(r, e, m) ==
  IF ~r.reply.ok
  THEN Respond(r, r.reply.status, [error |-> "OpenAI error", detail |-> ReplyText(r.reply)])
  ELSE Respond(r, 200, [ok |-> TRUE, model |-> EnvModel(e, "gpt-5"),
                        body |-> ReplyText(r.reply),
                        parsed |-> ~ReplyJsonThrows(r.reply)])

handler_ping(r, e, m) ==
  IF r.method = "OPTIONS" THEN Respond(r, 200, [end |-> TRUE])
  ELSE IF r.method # "GET" THEN Respond(r, 405, [error |-> "Method not allowed"])
  ELSE Respond(r, 200, [ok |-> TRUE, model |-> EnvModel(e, "gpt-5"),
                        hasKey |-> Truthy(e.OPENAI_API_KEY)])

-----------------------------------------------------------------------------
(* The handlers as steps of a request *)

\* the handler from the arrival of the request to its first await (or to
\* its response)
Start(v, r, e, m) ==
  CASE v = "analyze1" -> handler_analyze1(r, e, m)
    [] v = "analyze2" -> handler_analyze2(r, e, m)
    [] v = "analyze3" -> handler_analyze3(r, e, m)
    [] v = "part000" -> handler_part000(r, e, m)
    [] v = "part001a" -> handler_part001a(r, e, m)
    [] v = "part001b" -> handler_part001b(r, e, m)
    [] v = "part002" -> handler_part002(r, e, m)
    [] v = "part003" -> handler_part003(r, e, m)
    [] v = "selftest1" -> handler_selftest1(r, e, m)
    [] v = "selftest2" -> handler_selftest2(r, e, m)
    [] OTHER -> handler_ping(r, e, m)

\* the handler once the reply (r.reply) can be read, to its response
Resume(v, r, e, m) ==
  CASE v = "analyze1" -> resume_analyze1(r, e, m)
    [] v = "analyze2" -> resume_analyze2(r, e, m)
    [] v = "analyze3" -> resume_analyze3(r, e, m)
    [] v = "part000" -> resume_part000(r, e, m)
    [] v = "part001a" -> resume_part001a(r, e, m)
    [] v = "part001b" -> resume_part001b(r, e, m)
    [] v = "part002" -> resume_part002(r, e, m)
    [] v = "part003" -> resume_part003(r, e, m)
    [] v = "selftest1" -> resume_selftest1(r, e, m)
    [] OTHER -> resume_selftest2(r, e, m)

\* the completion call settles with a reply: part_002 clears its timer; a
\* fetch variant goes on to read the body, the client library has read it
OnFetchResolved(v, r, e, m, reply) ==
  LET got == [r EXCEPT !.reply = reply,
                       !.timer = IF @ = "armed" THEN "cleared" ELSE @]
  IN IF v \in SdkVariants THEN Resume(v, got, e, m)
     ELSE [got EXCEPT !.pc = "awaitBody"]

\* the completion call rejects with cause: the catch block answers, and
\* the call is not made again
OnFetchRejected_Retry(v, r, cause) ==
  IF r.calls < 2 THEN CallCompletion([r EXCEPT !.failure = cause], r.sent)
  ELSE Catch(v, [r EXCEPT !.failure = cause], cause)

OnFetchRejected(v, r, cause) ==
  LET failed == [r EXCEPT !.failure = cause]
  IN IF v = "part002" THEN Catch(v, failed, WrapFetchError(cause))
     ELSE Catch(v, failed, cause)

\* setTimeout(() => ctrl.abort(), OPENAI_TIMEOUT_MS): a pending fetch
\* rejects with an AbortError, a settled one is not touched
OnTimer(v, r) ==
  LET fired == [r EXCEPT !.timer = "fired"]
  IN IF r.pc = "awaitFetch" THEN OnFetchRejected(v, fired, AbortError) ELSE fired

-----------------------------------------------------------------------------
(* Inputs *)

EnvOf(key, model, base) ==
  [OPENAI_API_KEY |-> key, OPENAI_MODEL |-> model, OPENAI_API_BASE |-> base]
defaultEnv == EnvOf(JsString("sk-test"), JsUndefined, JsUndefined)
proxyEnv == EnvOf(JsString("sk-test"), JsString("gpt-4.1"), JsString("https://proxy.test/v1"))
Envs ==
  {defaultEnv,
   proxyEnv,
   EnvOf(JsUndefined, JsUndefined, JsUndefined),
   EnvOf(JsString(""), JsString("gpt-4.1"), JsUndefined)}

Methods == {"POST", "GET", "OPTIONS", "PUT", "DELETE"}

goodBody == BodyOf(JsString("Acme Corp"), SnapshotOf(goodScores, goodTop3), goodNotes)

\* requests that vary snapshot.scores
ScoreRequests ==
  {NewRequest("POST", BodyOf(brand, SnapshotOf(scores, goodTop3), goodNotes)) :
     scores \in ScoresDomain \cup {JsUndefined},
     brand \in {JsUndefined, JsString("Acme Corp")}}

\* requests that vary brand, top3 and referenceNotes
ShapeRequests ==
  {NewRequest("POST", BodyOf(brand, SnapshotOf(goodScores, top3), notes)) :
     brand \in BrandDomain \cup {JsUndefined},
     top3 \in Top3Domain \cup {JsUndefined},
     notes \in NotesDomain \cup {JsUndefined}}

goodCsv ==
  JsText(<<<<"Item", " Caring ", "Order">>, <<" Vision", "1", "2">>, <<"">>, <<"Talent", "x">>>>,
         JsUndefined)
headerOnlyCsv == JsText(<<<<"Item", "Caring">>>>, JsUndefined)
wideCsv == JsText(<<<<"Item", "Caring">>, <<"Vision", "1", "2">>>>, JsUndefined)
goodRows ==
  JsArray(<<JsArray(<<JsString("Item"), JsString("Caring")>>),
            JsArray(<<JsString("Vision"), JsString("2")>>)>>)
goodMatrixJson ==
  [t |-> "object", cultures |-> JsArray(<<JsString("Caring")>>),
   chosen |-> JsArray(<<JsString("Vision")>>), weights |-> JsArray(<<>>)]
rowsJsonText == JsText(<<<<"{\"rows\":[]}">>>>, [t |-> "object", rows |-> goodRows])
garbageText == JsText(<<<<"<html>">>>>, JsUndefined)

MatrixInputs ==
  {[matrixJson |-> goodMatrixJson],
   [matrixJson |-> [t |-> "object", rows |-> goodRows]],
   [matrixJson |-> [t |-> "object", rows |-> JsArray(<<>>)], matrixCsv |-> goodCsv],
   [matrixCsv |-> headerOnlyCsv, matrixXlsxBase64 |-> [t |-> "string", s |-> "UEsDBA", sheet |-> goodRows]],
   [matrixXlsxBase64 |-> JsString("AAAA"), matrixUrl |-> JsString("https://cdn.test/matrix.csv")],
   [matrixUrl |-> JsString("https://cdn.test/matrix.json")],
   [matrixUrl |-> JsString("ftp://cdn.test/matrix.csv")],
   [matrixJson |-> [t |-> "object", rows |-> JsArray(<<JsNull>>)], matrixCsv |-> goodCsv],
   [matrixCsv |-> wideCsv]}

MatrixRequests ==
  {NewRequest("POST",
     [f \in DOMAIN goodBody \cup DOMAIN mi |-> IF f \in DOMAIN mi THEN mi[f] ELSE goodBody[f]]) :
     mi \in MatrixInputs}

OtherRequests ==
  {NewRequest(method, goodBody) : method \in Methods}
    \cup {NewRequest("POST", JsUndefined),
          NewRequest("POST", BodyOf(JsString("Acme Corp"), JsUndefined, goodNotes)),
          NewRequest("POST", [t |-> "object", scores |-> goodScores, top3 |-> goodTop3])}

Requests == ScoreRequests \cup ShapeRequests \cup MatrixRequests \cup OtherRequests

\* the replies of the completion API
CompletionBody(content) ==
  [kind |-> "completion", content |-> content, raw |-> "{\"choices\":[{\"message\":{}}]}"]
Replies ==
  {[ok |-> TRUE, status |-> 200, body |-> CompletionBody(JsString(" OK "))],
   [ok |-> TRUE, status |-> 200, body |-> CompletionBody(JsString("{\"executiveSummary\":[]}"))],
   [ok |-> TRUE, status |-> 200,
    body |-> [kind |-> "emptyChoices", raw |-> "{\"choices\":[]}"]],
   [ok |-> TRUE, status |-> 200, body |-> [kind |-> "garbage", raw |-> "<html>"]],
   [ok |-> FALSE, status |-> 429,
    body |-> [kind |-> "error", raw |-> "{\"error\":{\"code\":\"rate_limit\"}}"]]}

\* the answers of matrixUrl
MatrixReplies ==
  {[failed |-> TRUE, ok |-> FALSE, status |-> 0, text |-> garbageText],
   [failed |-> FALSE, ok |-> FALSE, status |-> 404, text |-> garbageText],
   [failed |-> FALSE, ok |-> TRUE, status |-> 200, text |-> goodCsv],
   [failed |-> FALSE, ok |-> TRUE, status |-> 200, text |-> rowsJsonText],
   [failed |-> FALSE, ok |-> TRUE, status |-> 200, text |-> garbageText]}

-----------------------------------------------------------------------------
(* Actions *)

\* the platform invokes the handler with request i
Receive(i) ==
  /\ reqs[i].pc = "new"
  /\ reqs' = [reqs EXCEPT ![i] = Start(variant, reqs[i], env, module)]
  /\ module' = ModuleAfterRequest(module, reqs[i])
  /\ UNCHANGED <<variant, env, bp>>

\* matrixUrl answers, or the fetch of it fails
MatrixFetched(i) ==
  /\ reqs[i].pc = "awaitMatrix"
  /\ \E reply \in MatrixReplies :
       reqs' = [reqs EXCEPT ![i] =
                  matrix_part001a([reqs[i] EXCEPT !.matrixReply = reply], env, reply)]
  /\ UNCHANGED <<variant, env, module, bp>>

\* the completion API answers
FetchResolves(i) ==
  /\ reqs[i].pc = "awaitFetch"
  /\ \E reply \in Replies :
       reqs' = [reqs EXCEPT ![i] = OnFetchResolved(variant, reqs[i], env, module, reply)]
  /\ UNCHANGED <<variant, env, module, bp>>

\* the completion call fails (network)
FetchRejects(i) ==
  /\ reqs[i].pc = "awaitFetch"
  /\ reqs' = [reqs EXCEPT ![i] = OnFetchRejected(variant, reqs[i], FetchFailed)]
  /\ UNCHANGED <<variant, env, module, bp>>

\* the body of the reply has been read
BodyRead(i) ==
  /\ reqs[i].pc = "awaitBody"
  /\ reqs' = [reqs EXCEPT ![i] = Resume(variant, reqs[i], env, module)]
  /\ UNCHANGED <<variant, env, module, bp>>

\* time passes while the abort timer is armed
Tick(i) ==
  /\ reqs[i].timer = "armed"
  /\ reqs[i].elapsed < OPENAI_TIMEOUT_MS
  /\ reqs' = [reqs EXCEPT ![i].elapsed = @ + TickMs]
  /\ UNCHANGED <<variant, env, module, bp>>

\* the abort timer fires, OPENAI_TIMEOUT_MS after it was armed
TimerFires(i) ==
  /\ reqs[i].timer = "armed"
  /\ reqs[i].elapsed >= OPENAI_TIMEOUT_MS
  /\ reqs' = [reqs EXCEPT ![i] = OnTimer(variant, reqs[i])]
  /\ UNCHANGED <<variant, env, module, bp>>

Next ==
  \/ \E i \in DOMAIN reqs : Receive(i)
  \/ \E i \in DOMAIN reqs : MatrixFetched(i)
  \/ \E i \in DOMAIN reqs : FetchResolves(i)
  \/ \E i \in DOMAIN reqs : FetchRejects(i)
  \/ \E i \in DOMAIN reqs : BodyRead(i)
  \/ \E i \in DOMAIN reqs : Tick(i)
  \/ \E i \in DOMAIN reqs : TimerFires(i)

NoBuild == [calls |-> MaxBuildCalls]

\* one request at a time: every variant with every request under the
\* default environment, and with the plain requests under every environment
Init ==
  /\ variant \in Variants
  /\ \E e \in Envs, r \in Requests :
       /\ (e = defaultEnv \/ r \in OtherRequests)
       /\ env = e
       /\ reqs = <<r>>
  /\ module = ModuleLoad(env)
  /\ bp = NoBuild

Spec == Init /\ [][Next]_vars

-----------------------------------------------------------------------------
(* Concurrent requests to one deployed handler *)

otherBody ==
  [t |-> "object",
   snapshot |-> SnapshotOf(JsArray(<<rowOrder, rowCaring>>), JsUndefined),
   matrixUrl |-> JsString("https://cdn.test/matrix.csv")]

ConcRequests ==
  <<NewRequest("POST", goodBody), NewRequest("POST", otherBody), NewRequest("GET", goodBody)>>

InitConc ==
  /\ variant \in Variants
  /\ env = proxyEnv
  \* no handler reads a request's number: one numbering of each multiset
  \* of requests stands for all of them
  /\ \E f \in [1..NumReqs -> DOMAIN ConcRequests] :
       /\ \A i, j \in 1..NumReqs : i <= j => f[i] <= f[j]
       /\ reqs = [i \in 1..NumReqs |-> ConcRequests[f[i]]]
  /\ module = ModuleLoad(env)
  /\ bp = NoBuild

SpecConc == InitConc /\ [][Next]_vars

-----------------------------------------------------------------------------
(* buildPrompt called on its own *)

BuildInputs ==
  {[brand |-> brand, snapshot |-> SnapshotOf(JsArray(q), top3), orgMeta |-> orgMeta,
    given |-> SnapshotOf(JsArray(q), top3), out |-> <<>>, calls |-> 0] :
     brand \in BrandDomain,
     q \in SeqsUpTo(ScoreEntries \cup {rowSafety}, MaxScores),
     top3 \in {goodTop3, JsUndefined},
     orgMeta \in {JsUndefined, [t |-> "object", company |-> JsString("Acme")],
                  [t |-> "object", domain |-> JsString("acme.test"),
                   industry |-> JsString("retail")]}}

InitBuild ==
  /\ variant = "analyze3"
  /\ env = defaultEnv
  /\ module = ModuleLoad(env)
  /\ reqs = <<>>
  /\ bp \in BuildInputs

\* a caller calls buildPrompt(brand, snapshot, orgMeta) with the objects it
\* holds, and keeps what the call returns (or throws)
BuildCall ==
  /\ bp.calls < MaxBuildCalls
  /\ LET res == buildPrompt(bp.brand, bp.snapshot, bp.orgMeta)
     IN bp' = [bp EXCEPT !.calls = @ + 1, !.out = Append(@, res.ret),
                         !.snapshot = res.snapshot]
  /\ UNCHANGED <<variant, env, module, reqs>>

NextBuild == BuildCall

SpecBuild == InitBuild /\ [][NextBuild]_vars

-----------------------------------------------------------------------------
(* Properties *)

KeySet == Truthy(env.OPENAI_API_KEY)
GivenSnapshot(r) == OptGet(r.given, "snapshot")
GivenScores(r) == OptGet(GivenSnapshot(r), "scores")
GivenBrand(r) == OptGet(r.given, "brand")
GivenNotes(r) == OptGet(r.given, "referenceNotes")
NoMatrixInput(r) ==
  DOMAIN r.given \cap {"matrixJson", "matrixCsv", "matrixXlsxBase64", "matrixUrl"} = {}
Is4xx(status) == status \in 400..499
AnalyzePost(r) ==
  /\ variant \in AnalyzeVariants
  /\ KeySet
  /\ r.method = "POST"
  /\ ~IsNullish(r.given)
  /\ NoMatrixInput(r)

WellFormedEntry(x) ==
  x.t = "object" /\ IsString(Get(x, "key")) /\ IsFiniteNumber(Get(x, "current"))
BadKeyEntry(x) == x.t = "object" /\ ~IsString(Get(x, "key"))
BadCurrentEntry(x) ==
  x.t = "object" /\ IsString(Get(x, "key")) /\ ~IsFiniteNumber(Get(x, "current"))

\* the score list of the prompt that was sent
PromptScores(v, sent) ==
  CASE v = "analyze3" -> OptGet(OptGet(sent.user, "inputs"), "scores")
    [] v \in {"analyze2", "part003"} -> sent.user.scores
    [] OTHER -> OptGet(sent.user.snapshot, "scores")

KeysOf(q) == [k \in 1..Len(q) |-> OptGet(q[k], "key")]

\* C1: in every analyze variant a POST whose snapshot.scores is the empty
\* array is answered with a 4xx status and no completion call is made.
C1_EmptyScoresRejected ==
  \A i \in DOMAIN reqs :
    LET r == reqs[i]
    IN (AnalyzePost(r) /\ GivenScores(r) = JsArray(<<>>) /\ r.pc # "new")
         => (r.pc = "done" /\ Is4xx(r.resp.status) /\ r.calls = 0 /\ r.sent = NoPayload)

\* C2: in every analyze variant a POST whose snapshot.scores is present but
\* is not an array is answered with a 4xx status and no completion call is
\* made.
C2_NonArrayScoresRejected ==
  \A i \in DOMAIN reqs :
    LET r == reqs[i]
    IN (AnalyzePost(r) /\ ~IsNullish(GivenScores(r)) /\ ~IsArray(GivenScores(r))
          /\ r.pc # "new")
         => (r.pc = "done" /\ Is4xx(r.resp.status) /\ r.calls = 0 /\ r.sent = NoPayload)

MixedKeys(scores) ==
  /\ IsArray(scores)
  /\ \A k \in 1..Len(scores.a) : WellFormedEntry(scores.a[k]) \/ BadKeyEntry(scores.a[k])
  /\ \E k \in 1..Len(scores.a) : WellFormedEntry(scores.a[k])
  /\ \E k \in 1..Len(scores.a) : BadKeyEntry(scores.a[k])

\* C3: a scores array that mixes well-formed entries with entries whose key
\* is missing or is not a string is accepted, and the score list of the
\* prompt holds exactly the well-formed entries, in their order.
C3_MixedScoresFiltered ==
  \A i \in DOMAIN reqs :
    LET r == reqs[i]
        list == PromptScores(variant, r.sent)
    IN (AnalyzePost(r) /\ Truthy(GivenBrand(r)) /\ MixedKeys(GivenScores(r))
          /\ r.pc # "new")
         => /\ r.calls = 1
            /\ IsArray(list)
            /\ KeysOf(list.a) = KeysOf(SelectSeq(GivenScores(r).a, WellFormedEntry))

\* C4: an entry whose current is missing or is not a finite number gives no
\* numeric value to the prompt: no entry of the prompt's score list with its
\* key carries a number.
C4_NoValueForBadCurrent ==
  \A i \in DOMAIN reqs :
    LET r == reqs[i]
        scores == GivenScores(r)
        list == PromptScores(variant, r.sent)
    IN (AnalyzePost(r) /\ IsArray(scores) /\ r.calls = 1 /\ IsArray(list))
         => \A k \in 1..Len(scores.a) :
              BadCurrentEntry(scores.a[k])
                => \A j \in 1..Len(list.a) :
                     OptGet(list.a[j], "key") = Get(scores.a[k], "key")
                       => ~IsNumber(OptGet(list.a[j], "current"))

UsableScores(scores) ==
  /\ IsArray(scores)
  /\ \E k \in 1..Len(scores.a) : WellFormedEntry(scores.a[k])
  /\ \A k \in 1..Len(scores.a) : WellFormedEntry(scores.a[k]) \/ scores.a[k].t # "object"

\* C5: whatever the shape of top3, of referenceNotes and of the null or
\* non-object entries of scores, the handler does not answer 500 before its
\* completion call.
C5_MalformedFieldsNo500 ==
  \A i \in DOMAIN reqs :
    LET r == reqs[i]
    IN (AnalyzePost(r) /\ Truthy(GivenBrand(r)) /\ UsableScores(GivenScores(r))
          /\ r.pc = "done" /\ r.calls = 0)
         => r.resp.status # 500

\* C6: the brand is optional in every analyze variant: without it the system
\* instructions name The Elysium Group, with it they name the given brand.
C6_BrandOptional ==
  \A i \in DOMAIN reqs :
    LET r == reqs[i]
        brand == GivenBrand(r)
    IN (AnalyzePost(r) /\ GivenSnapshot(r) = SnapshotOf(goodScores, goodTop3)
          /\ GivenNotes(r) = goodNotes
          /\ (brand = JsUndefined \/ (IsString(brand) /\ brand.s # ""))
          /\ r.pc # "new")
         => /\ r.calls = 1
            /\ r.sent.system.brand = IF brand = JsUndefined THEN DefaultBrand ELSE brand.s

\* C7: buildPrompt is deterministic and free of side effects: called again on
\* the same arguments it gives the same result, and the caller's snapshot
\* (its scores, in their order) is what it was before the calls.
C7_BuildPromptPure ==
  bp.calls >= 1 =>
    /\ bp.snapshot = bp.given
    /\ \A k \in 1..Len(bp.out) : bp.out[k] = bp.out[1]

C7_Witness ==
  /\ bp.calls = MaxBuildCalls
  /\ Len(bp.out) >= 2
  /\ ~bp.out[1].thrown
  /\ bp.given.scores = JsArray(<<rowOrder, rowCaring>>)
  /\ bp.out[1].v.user.inputs.scores.a[1].key = rowCaring.key

\* a request on its own: the handler run on what the request was given, by
\* a freshly loaded module, with the replies the request itself received
Alone(r) ==
  LET m0 == ModuleLoad(env)
      s0 == NewRequest(r.method, r.given)
      s1 == Start(variant, s0, env, m0)
      s2 == IF s1.pc = "awaitMatrix" /\ r.matrixReply # NoReply
            THEN matrix_part001a([s1 EXCEPT !.matrixReply = r.matrixReply], env, r.matrixReply)
            ELSE s1
      s3 == IF s2.pc # "awaitFetch" THEN s2
            ELSE IF r.failure # NoError THEN OnFetchRejected(variant, s2, r.failure)
            ELSE IF r.reply # NoReply THEN OnFetchResolved(variant, s2, env, m0, r.reply)
            ELSE s2
  IN IF s3.pc = "awaitBody" /\ r.pc = "done" THEN Resume(variant, s3, env, m0) ELSE s3

Outcome(r) == [pc |-> r.pc, calls |-> r.calls, sent |-> r.sent, resp |-> r.resp]

\* C8: concurrent requests are independent: no handler writes module-level
\* state, and at every point of every interleaving each request stands where
\* it would stand had it been the only request.
C8_RequestsIndependent ==
  /\ module = ModuleLoad(env)
  /\ \A i \in DOMAIN reqs : reqs[i].pc # "new" => Outcome(reqs[i]) = Outcome(Alone(reqs[i]))

C8_Witness ==
  \E i, j \in DOMAIN reqs :
    /\ i # j
    /\ reqs[i].given # reqs[j].given
    /\ reqs[i].pc = "done" /\ reqs[i].resp.status = 200 /\ reqs[i].calls = 1
    /\ reqs[j].pc \in {"awaitFetch", "awaitBody"}
    /\ reqs[j].sent # reqs[i].sent

C10_TimeoutAnswers504 ==
  \A i \in DOMAIN reqs :
    LET r == reqs[i]
    IN (variant = "part002" /\ r.timer = "fired" /\ r.elapsed >= OPENAI_TIMEOUT_MS
          /\ r.failure = AbortError /\ r.pc = "done")
         => (r.resp.status = 504 /\ r.resp.body.error = "Upstream timeout")

\* the score list of a message list that buildPrompt returned
BuiltScores(out) == out.v.user.inputs.scores.a
InputKeys(snapshot) ==
  {Get(snapshot.scores.a[k], "key") : k \in {j \in 1..Len(snapshot.scores.a) :
                                              snapshot.scores.a[j].t = "object"}}
CanonIndex(key) == CHOOSE n \in 1..Len(StyleKeys) : StyleKeys[n] = key
IsCanonKey(key) == IsString(key) /\ \E n \in 1..Len(StyleKeys) : StyleKeys[n] = key.s

\* an input the handler lets through to buildPrompt, made of well-formed
\* entries of the eight categories
CanonInput(snapshot) ==
  /\ Len(snapshot.scores.a) >= 1
  /\ \A k \in 1..Len(snapshot.scores.a) :
       WellFormedEntry(snapshot.scores.a[k]) /\ IsCanonKey(snapshot.scores.a[k].key)

\* C11: the score list of the prompt holds each of the eight categories of
\* StyleKeys exactly once, whichever keys the input has: a category the
\* input lacks is there with value 0, a key the input repeats is there once.
C11_EveryCategoryOnce ==
  \A k \in 1..Len(bp.out) :
    (CanonInput(bp.given) /\ ~bp.out[k].thrown) =>
      LET list == BuiltScores(bp.out[k])
      IN \A n \in 1..Len(StyleKeys) :
           LET at == {j \in 1..Len(list) : Get(list[j], "key") = JsString(StyleKeys[n])}
           IN /\ Cardinality(at) = 1
              /\ JsString(StyleKeys[n]) \notin InputKeys(bp.given)
                   => \A j \in at : Get(list[j], "current") = JsNumber(0)

\* C12: the score list of the prompt is in non-increasing order of value,
\* and of two categories with the same value the one that is earlier in
\* StyleKeys comes first, whatever their order in the input.
C12_SortedTiesCanonical ==
  \A k \in 1..Len(bp.out) :
    (CanonInput(bp.given) /\ ~bp.out[k].thrown) =>
      LET list == BuiltScores(bp.out[k])
      IN \A i, j \in 1..Len(list) :
           LET x == Get(list[i], "current")
               y == Get(list[j], "current")
           IN (i < j /\ IsFiniteNumber(x) /\ IsFiniteNumber(y))
                => /\ x.n >= y.n
                   /\ (x.n = y.n /\ IsCanonKey(Get(list[i], "key"))
                         /\ IsCanonKey(Get(list[j], "key")))
                        => CanonIndex(Get(list[i], "key").s) <= CanonIndex(Get(list[j], "key").s)

\* C13: only a POST leads an analyze handler to the completion API: a
\* request with any other method is answered with no upstream call, and
\* with 405 unless the method is OPTIONS or GET.
C13_OnlyPostCalls ==
  \A i \in DOMAIN reqs :
    LET r == reqs[i]
    IN (variant \in AnalyzeVariants /\ r.method # "POST" /\ r.pc # "new")
         => /\ r.pc = "done"
            /\ r.calls = 0
            /\ r.matrixFetches = 0
            /\ r.method \notin {"OPTIONS", "GET"} => r.resp.status = 405

\* the request as it would go with a key configured
WithKey(r) == Start(variant, NewRequest(r.method, r.given), defaultEnv, ModuleLoad(defaultEnv))
MissingKeyErrors ==
  {"Missing OPENAI_API_KEY", "Server not configured (missing OPENAI_API_KEY)"}

\* C14: with OPENAI_API_KEY unset or empty no handler calls the completion
\* API: a request that would reach the call with a key is answered with a
\* missing-key error response.
C14_NoCallWithoutKey ==
  \A i \in DOMAIN reqs :
    LET r == reqs[i]
    IN (~KeySet /\ r.pc # "new")
         => /\ r.calls = 0
            /\ r.sent = NoPayload
            /\ WithKey(r).pc \in {"awaitFetch", "awaitMatrix"}
                 => /\ r.pc = "done"
                    /\ r.resp.status >= 400
                    /\ "error" \in DOMAIN r.resp.body
                    /\ r.resp.body.error \in MissingKeyErrors

\* C15: no handler reports success when the completion API answered with a
\* status that is not OK: its own response then has an error status, and
\* carries no ok: true and no text, report or result.
C15_UpstreamErrorIsError ==
  \A i \in DOMAIN reqs :
    LET r == reqs[i]
    IN (r.reply # NoReply /\ ~r.reply.ok /\ r.pc = "done")
         => /\ r.resp.status \in 400..599
            /\ DOMAIN r.resp.body \cap {"text", "report", "result"} = {}
            /\ "ok" \in DOMAIN r.resp.body => r.resp.body.ok = FALSE

\* C16: in the two variants that return structured JSON, when the API
\* answers OK with a message content that is not valid JSON, the response
\* is 200 and wraps the content as {raw: text}.
C16_BadJsonContentWrapped ==
  \A i \in DOMAIN reqs :
    LET r == reqs[i]
        content == ReplyContent(r.reply)
    IN (variant \in {"analyze3", "part001a"} /\ r.reply # NoReply /\ r.reply.ok
          /\ r.reply.body.kind = "completion" /\ IsString(content)
          /\ ~IsJsonText(content.s) /\ r.pc = "done")
         => /\ r.resp.status = 200
            /\ LET result == IF variant = "part001a" THEN r.resp.body.result ELSE r.resp.body
               IN Get(result, "raw") = content

\* a request to the first handler of part_001 that passes its validation
MatrixPost(r) ==
  /\ variant = "part001a"
  /\ KeySet
  /\ r.method = "POST"
  /\ ~IsNullish(r.given)
  /\ GivenSnapshot(r) = SnapshotOf(goodScores, goodTop3)
  /\ GivenNotes(r) = goodNotes
  /\ ~NoMatrixInput(r)

Yields(res) == ~res.thrown /\ Truthy(res.v)
YieldsInBody(r) ==
  \/ Yields(MatrixFromJson(r.given))
  \/ Yields(MatrixFromCsv(r.given))
  \/ Yields(MatrixFromXlsx(r.given))
FirstInBody(r) ==
  IF Yields(MatrixFromJson(r.given)) THEN MatrixFromJson(r.given).v
  ELSE IF Yields(MatrixFromCsv(r.given)) THEN MatrixFromCsv(r.given).v
  ELSE MatrixFromXlsx(r.given).v

\* C17: getNormalizedMatrix takes matrixJson before matrixCsv before
\* matrixXlsxBase64 before matrixUrl: the matrix is that of the first input
\* that yields one, an input that is present and yields none is passed over,
\* and matrixUrl is fetched only when the three others yield none.
C17_MatrixPriority ==
  \A i \in DOMAIN reqs :
    LET r == reqs[i]
    IN (MatrixPost(r) /\ r.pc # "new")
         => /\ YieldsInBody(r)
                 => /\ r.matrixFetches = 0
                    /\ r.calls = 1
                    /\ r.matrix = FirstInBody(r)
            /\ r.matrixFetches > 0 => ~YieldsInBody(r)

\* the request's matrix was made by normalizeMatrixFromRows
FromRows(r) ==
  /\ Truthy(r.matrix)
  /\ ~IsMatrixShaped(OptGet(r.given, "matrixJson"))
  /\ r.matrixReply # NoReply => ~IsMatrixShaped(r.matrixReply.text.json)

\* C18: a result of normalizeMatrixFromRows that is not null is
\* rectangular: weights has one row for each entry of chosen, and each row
\* has cultures.length entries.
C18_MatrixRectangular ==
  \A i \in DOMAIN reqs :
    LET r == reqs[i]
    IN (variant = "part001a" /\ FromRows(r))
         => /\ Len(r.matrix.weights) = Len(r.matrix.chosen.a)
            /\ \A k \in 1..Len(r.matrix.weights) :
                 Len(r.matrix.weights[k]) = Len(r.matrix.cultures.a)

UrlYields(r) ==
  /\ r.matrixReply # NoReply
  /\ ~r.matrixReply.failed
  /\ Yields(MatrixFromUrl(r.matrixUrl, r.matrixReply))

\* C19: a matrix input that cannot be turned into a matrix does not fail
\* the request: the handler goes on to the completion call without a matrix
\* and answers with usedMatrix = false.
C19_MatrixFailureTolerated ==
  \A i \in DOMAIN reqs :
    LET r == reqs[i]
    IN (MatrixPost(r) /\ r.pc \notin {"new", "awaitMatrix"}
          /\ ~YieldsInBody(r) /\ ~UrlYields(r))
         => /\ r.calls = 1
            /\ ~Truthy(r.matrix)
            /\ (r.pc = "done" /\ r.reply # NoReply /\ r.reply.ok /\ ~ReplyJsonThrows(r.reply))
                 => (r.resp.status = 200 /\ r.resp.body.usedMatrix = FALSE)

====
